---- MODULE Spec2Model ----
(***************************************************************************)
(* Toggleman: the store of named toggle configurations (ConfigManager),    *)
(* the script generator and toggle manager working on it, the KWin         *)
(* shortcut bookkeeping, the CLI commands, and one run of the generated    *)
(* toggle script against a desktop.                                        *)
(*                                                                         *)
(* A configuration is a Python dict: a function whose DOMAIN is the set of *)
(* keys present.  The in-memory store and the stored dict are one object   *)
(* (get_script hands out the stored dict itself), so an assignment to a    *)
(* key of a dict obtained from get_script is an update of `scripts`.       *)
(***************************************************************************)
EXTENDS Integers, Sequences, FiniteSets, TLC

VARIABLES
    scripts,            \* ConfigManager.scripts: dict name -> config
    scriptOrder,        \* the names of that dict in its iteration (insertion) order,
                        \* NoOrder in the behaviours in which nothing iterates it
    jsonFiles,          \* the scripts directory: file <name>.json -> content
    files,              \* script files on disk: path -> [content, exec]
    template,           \* whether ScriptGenerator.template_file exists
    osAlive,            \* whether a process matching the app_process pattern lives
    running_processes,  \* ToggleManager.running_processes: dict name -> pids
    faults,             \* how many system calls have failed so far
    last,               \* the operation performed last, with what it returned
    script,             \* the generated script that is run: its substituted variables
    tools,              \* which of qdbus, the KWin D-Bus interface, xdotool, xprop are there
    proc,               \* the application's process: "none", "starting" or "running"
    wins,               \* the windows of class WINDOW_CLASS, in the order they are listed
    run,                \* what the last run of the script did; failed: it ran the
                        \* launch command and the command did not start the application
    runLog,             \* the desktop before each of the runs made in a row
    rows,               \* MainWindow.scripts_table: the name shown in each row
    selected,           \* the row selected in the table (from 0), -1 when none is
    webApps,            \* the web apps the browsers' profiles on disk hold
    scanCaller,         \* where the caller of scan_web_apps_in_background is
    scanThreads         \* the threads made by scan_web_apps_in_background

mgrVars ==
    <<scripts, scriptOrder, jsonFiles, files, template, osAlive, running_processes, faults, last>>

deskVars == <<script, tools, proc, wins, run, runLog>>

guiVars == <<rows, selected>>

scanVars == <<webApps, scanCaller, scanThreads>>

(* Bound: the calls of scan_web_apps_in_background *)
MaxScans == 2

(* Bound: the system calls that fail in one behaviour *)
MaxFaults == 1

(* Bound: the windows of the application that are open at once *)
MaxWindows == 2

----------------------------------------------------------------------------
(* The names of the toggles of the model: two names that differ in case *)
Names == {"b", "B"}

(* str.lower() on the names of the model *)
Lower(s) == IF s = "B" THEN "b" ELSE s

(* get_setting("general", "default_script_dir", ~/.local/bin) *)
default_script_dir == "~/.local/bin"

DefaultPath(name) == default_script_dir \o "/toggle-" \o Lower(name) \o ".sh"

CustomPath == "/opt/t.sh"

AppPid == "4242"

----------------------------------------------------------------------------
(* Python values *)

None == [None |-> TRUE]

EmptyDict == [k \in {} |-> ""]

(* dict.get(key, default) *)
Get(d, k, default) == IF k \in DOMAIN d THEN d[k] ELSE default

(* d[key] = value on a dict *)
SetKey(d, k, v) == [x \in DOMAIN d \cup {k} |-> IF x = k THEN v ELSE d[x]]

(* del d[key] *)
DelKey(d, k) == [x \in DOMAIN d \ {k} |-> d[x]]

(* truth value of an Optional[dict]: None and {} are false *)
Truthy(c) == c # None /\ DOMAIN c # {}

(* The configurations handed to the manager by its callers, with the keys  *)
(* ScriptEditorDialog._get_script_data and cmd_create give them.           *)
CfgPlain(name) ==
    [name |-> name, app_command |-> "app", app_process |-> "app", window_class |-> "cls",
     tray_name |-> name \o " Toggle", script_path |-> "", notifications |-> TRUE,
     debug |-> FALSE]

CfgDebug(name) == [CfgPlain(name) EXCEPT !.debug = TRUE]

CfgCustom(name) == [CfgPlain(name) EXCEPT !.script_path = CustomPath]

CfgNoClass(name) == [CfgPlain(name) EXCEPT !.window_class = ""]

CfgNoCommand(name) == [CfgPlain(name) EXCEPT !.app_command = ""]

CfgNoProcess(name) == [k \in DOMAIN CfgPlain(name) \ {"app_process"} |-> CfgPlain(name)[k]]

ValidConfigs(name) == {CfgPlain(name), CfgCustom(name)}

InputConfigs(name) ==
    ValidConfigs(name) \cup {CfgNoClass(name), CfgNoCommand(name), CfgNoProcess(name)}

Shortcuts == {"", "Meta+T"}

----------------------------------------------------------------------------
(* JSON: json.dump writes the members of the dict as text, a bool as the   *)
(* token true/false and a str quoted; json.load parses it back.  A file    *)
(* whose write was cut short is not valid JSON.                            *)

KeyOrder == <<"name", "app_command", "app_process", "window_class", "tray_name",
              "script_path", "notifications", "debug", "kwin_shortcut">>

JsonValue(k, v) == IF k \in {"debug", "notifications"}
                   THEN [t |-> "bool", s |-> IF v THEN "true" ELSE "false"]
                   ELSE [t |-> "str", s |-> v]

JsonDump(c) ==
    LET keep == {i \in 1..Len(KeyOrder) : KeyOrder[i] \in DOMAIN c}
        RECURSIVE Emit(_)
        Emit(i) == IF i > Len(KeyOrder) THEN <<>>
                   ELSE IF i \in keep
                        THEN <<[key |-> KeyOrder[i], val |-> JsonValue(KeyOrder[i], c[KeyOrder[i]])]>>
                             \o Emit(i + 1)
                        ELSE Emit(i + 1)
    IN  [kind |-> "json", members |-> Emit(1)]

Truncated == [kind |-> "malformed", members |-> <<>>]

PyValue(m) == IF m.val.t = "bool" THEN m.val.s = "true" ELSE m.val.s

JsonLoad(text) ==
    LET ms == text.members
        keys == {ms[i].key : i \in 1..Len(ms)}
    IN  [k \in keys |-> PyValue(ms[CHOOSE i \in 1..Len(ms) : ms[i].key = k])]

----------------------------------------------------------------------------
(* The state the operations work on, passed through the calls of one       *)
(* handler: st.scripts, st.jsonFiles, st.files, st.rp (running_processes), *)
(* st.alive.  Every operation returns [st |-> the state it leaves,         *)
(* ret |-> what it returns].                                               *)

Store == [scripts |-> scripts, jsonFiles |-> jsonFiles, files |-> files,
          rp |-> running_processes, alive |-> osAlive]

(* Outcomes of the system calls an operation makes.  Each is one the code  *)
(* itself provides for with an except clause.                              *)
SaveOutcomes == {"ok", "open_fails", "dump_fails"}

GenOutcomes == {"ok", "write_fails", "chmod_fails"}

SysOutcomes == {"ok", "fails"}

(* ConfigManager.get_script *)
get_script(st, name) == IF name \in DOMAIN st.scripts THEN st.scripts[name] ELSE None

(* os.path.exists(script_path) *)
Exists(st, path) == path \in DOMAIN st.files

(* ConfigManager.save_script: open(<name>.json, 'w') creates or empties    *)
(* the file, json.dump writes it, then the dict is stored under name.  An  *)
(* exception is caught and turned into False: before the file is opened    *)
(* nothing has changed, after it the file is left cut short.               *)
save_script(st, name, config, io) ==
    IF io = "open_fails" THEN [st |-> st, ret |-> FALSE]
    ELSE IF io = "dump_fails"
    THEN [st |-> [st EXCEPT !.jsonFiles = SetKey(st.jsonFiles, name, Truncated)],
          ret |-> FALSE]
    ELSE [st |-> [st EXCEPT !.jsonFiles = SetKey(st.jsonFiles, name, JsonDump(config)),
                            !.scripts = SetKey(st.scripts, name, config)],
          ret |-> TRUE]

(* ConfigManager.delete_script: unlink <name>.json if it exists, then drop *)
(* name from the dict; an exception of unlink skips the rest.              *)
config_delete_script(st, name, io) ==
    IF name \in DOMAIN st.jsonFiles /\ io = "fails"
    THEN [st |-> st, ret |-> FALSE]
    ELSE [st |-> [st EXCEPT !.jsonFiles = DelKey(st.jsonFiles, name),
                            !.scripts = DelKey(st.scripts, name)],
          ret |-> TRUE]

(* ConfigManager._load_scripts: the files of the directory are read in the *)
(* order glob yields them (order is a sequence of the file names); the     *)
(* try block encloses the loop, so the first file json.load rejects ends   *)
(* the loading and the files after it are not read.                        *)
RECURSIVE LoadFrom(_, _, _, _)
LoadFrom(dir, order, i, acc) ==
    IF i > Len(order) THEN acc
    ELSE IF dir[order[i]].kind # "json" THEN acc
    ELSE LoadFrom(dir, order, i + 1, SetKey(acc, order[i], JsonLoad(dir[order[i]])))

_load_scripts(dir, order) == LoadFrom(dir, order, 1, EmptyDict)

(* the orders glob("*.json") may yield the files of the directory in *)
GlobOrders(dir) ==
    {o \in [1..Cardinality(DOMAIN dir) -> DOMAIN dir] :
        \A i, j \in DOMAIN o : i # j => o[i] # o[j]}

(* ScriptGenerator.generate_script, the substitution variables and         *)
(* Template.safe_substitute: the script is the template with these values  *)
(* in place of the placeholders.                                           *)
Render(name, c) ==
    [APP_COMMAND |-> Get(c, "app_command", ""),
     APP_PROCESS |-> Get(c, "app_process", ""),
     WINDOW_CLASS |-> Get(c, "window_class", ""),
     CHROME_EXEC |-> Get(c, "chrome_exec", ""),
     APP_ID |-> Get(c, "app_id", ""),
     TRAY_NAME |-> Get(c, "tray_name", name \o " Toggle"),
     DEBUG |-> IF Get(c, "debug", FALSE) THEN "true" ELSE "false",
     NOTIFICATIONS |-> IF Get(c, "notifications", TRUE) THEN "true" ELSE "false"]

(* the path generate_script writes to *)
ScriptPathOf(name, c) ==
    IF Get(c, "script_path", "") # "" THEN c.script_path ELSE DefaultPath(name)

(* open(path, 'w') and write: a new file is created without execute bits,  *)
(* an existing one keeps its mode.                                         *)
WriteFile(fs, path, content) ==
    SetKey(fs, path, [content |-> content,
                      exec |-> IF path \in DOMAIN fs THEN fs[path].exec ELSE FALSE])

(* os.chmod(path, mode | S_IXUSR | S_IXGRP | S_IXOTH) *)
Chmod(fs, path) == [fs EXCEPT ![path].exec = TRUE]

(* ScriptGenerator.generate_script.  tpl: the template file exists.  gio:  *)
(* what writing the file and chmod do; sio: what the save_script at the    *)
(* end does (its result is not looked at).                                 *)
generate_script(st, name, tpl, gio, sio) ==
    LET c == get_script(st, name)
        path == ScriptPathOf(name, c)
        written == [st EXCEPT !.files = WriteFile(st.files, path, Render(name, c))]
        made == [written EXCEPT !.files = Chmod(written.files, path),
                                !.scripts = SetKey(st.scripts, name, SetKey(c, "script_path", path))]
    IN  IF ~Truthy(c) THEN [st |-> st, ret |-> FALSE]
        ELSE IF ~tpl THEN [st |-> st, ret |-> FALSE]
        ELSE IF gio = "write_fails" THEN [st |-> st, ret |-> FALSE]
        ELSE IF gio = "chmod_fails" THEN [st |-> written, ret |-> FALSE]
        ELSE [st |-> save_script(made, name, made.scripts[name], sio).st, ret |-> TRUE]

(* ScriptGenerator.delete_script.  rio: os.remove; uio: the unlink in      *)
(* ConfigManager.delete_script (its result is not looked at).              *)
delete_script(st, name, rio, uio) ==
    LET c == get_script(st, name)
        path == Get(c, "script_path", "")
    IN  IF ~Truthy(c) THEN [st |-> st, ret |-> FALSE]
        ELSE IF path = "" \/ ~Exists(st, path)
        THEN [st |-> config_delete_script(st, name, uio).st, ret |-> TRUE]
        ELSE IF rio = "fails" THEN [st |-> st, ret |-> FALSE]
        ELSE [st |-> config_delete_script([st EXCEPT !.files = DelKey(st.files, path)],
                                          name, uio).st,
              ret |-> TRUE]

----------------------------------------------------------------------------
(* ToggleManager *)

(* a list of required fields that leaves out window_class *)
required_fields_short == <<"app_command", "app_process">>

required_fields == <<"app_command", "app_process", "window_class">>

(* ToggleManager._validate_config: every required field is a key of the    *)
(* dict and its value is not empty.                                        *)
_validate_config(config) ==
    \A i \in 1..Len(required_fields) :
        required_fields[i] \in DOMAIN config /\ config[required_fields[i]] # ""

(* ToggleManager.create_toggle *)
create_toggle(st, name, config, tpl, io1, gio, io2) ==
    LET saved == save_script(st, name, config, io1)
    IN  IF ~_validate_config(config) THEN [st |-> st, ret |-> FALSE]
        ELSE IF ~saved.ret THEN [st |-> saved.st, ret |-> FALSE]
        ELSE generate_script(saved.st, name, tpl, gio, io2)

(* update_toggle without its look-up of the stored toggle *)
update_toggle_unchecked(st, name, config, tpl, io1, gio, io2) ==
    LET saved == save_script(st, name, config, io1)
    IN  IF ~_validate_config(config) THEN [st |-> st, ret |-> FALSE]
        ELSE IF ~saved.ret THEN [st |-> saved.st, ret |-> FALSE]
        ELSE generate_script(saved.st, name, tpl, gio, io2)

(* ToggleManager.update_toggle *)
update_toggle(st, name, config, tpl, io1, gio, io2) ==
    LET saved == save_script(st, name, config, io1)
    IN  IF ~Truthy(get_script(st, name)) THEN [st |-> st, ret |-> FALSE]
        ELSE IF ~_validate_config(config) THEN [st |-> st, ret |-> FALSE]
        ELSE IF ~saved.ret THEN [st |-> saved.st, ret |-> FALSE]
        ELSE generate_script(saved.st, name, tpl, gio, io2)

(* pgrep -f app_process returns 0: a process matching the pattern lives *)
Pgrep(st, pattern) == st.alive /\ pattern = "app"

(* ToggleManager._update_process_cache: the cache is rebuilt from the      *)
(* stored toggles whose script file exists, whose app_process is not empty *)
(* and for which pgrep finds a process.                                    *)
_update_process_cache(st) ==
    LET hit == {n \in DOMAIN st.scripts :
                   /\ Get(st.scripts[n], "script_path", "") # ""
                   /\ Exists(st, st.scripts[n].script_path)
                   /\ Get(st.scripts[n], "app_process", "") # ""
                   /\ Pgrep(st, st.scripts[n].app_process)}
    IN  [st EXCEPT !.rp = [n \in hit |-> {AppPid}]]

(* ToggleManager._stop_process: SIGTERM to every cached pid of name (a     *)
(* process that gets it ends; os.kill on a pid that is gone raises and is  *)
(* logged), then name leaves the cache.  ret.killed: a signal was sent.    *)
_stop_process(st, name) ==
    LET fresh == IF name \in DOMAIN st.rp THEN st ELSE _update_process_cache(st)
    IN  IF name \notin DOMAIN fresh.rp
        THEN [st |-> fresh, ret |-> FALSE, killed |-> FALSE]
        ELSE [st |-> [fresh EXCEPT !.rp = DelKey(fresh.rp, name), !.alive = FALSE],
              ret |-> fresh.alive, killed |-> fresh.alive]

(* ToggleManager.delete_toggle *)
delete_toggle(st, name, rio, uio) ==
    LET stopped == IF name \in DOMAIN st.rp THEN _stop_process(st, name)
                   ELSE [st |-> st, ret |-> FALSE, killed |-> FALSE]
        deleted == delete_script(stopped.st, name, rio, uio)
    IN  IF ~Truthy(get_script(st, name))
        THEN [st |-> st, ret |-> FALSE, killed |-> FALSE]
        ELSE [st |-> deleted.st, ret |-> deleted.ret, killed |-> stopped.killed]

(* run_toggle without the test that the script file exists: the stored     *)
(* script_path goes to Popen as it is                                      *)
run_toggle_unchecked(st, name, tpl, gio, sio, cio, pio) ==
    LET c0 == get_script(st, name)
    IN  IF ~Truthy(c0) THEN [st |-> st, ret |-> FALSE, launched |-> ""]
        ELSE IF pio = "fails" THEN [st |-> st, ret |-> FALSE, launched |-> ""]
        ELSE [st |-> st, ret |-> TRUE, launched |-> Get(c0, "script_path", "")]

(* ToggleManager.run_toggle.  cio: the chmod of a script that is not       *)
(* executable; pio: subprocess.Popen.  launched: the path handed to Popen  *)
(* when it started the script, "" when nothing was started.                *)
run_toggle(st, name, tpl, gio, sio, cio, pio) ==
    LET c0 == get_script(st, name)
        p0 == Get(c0, "script_path", "")
        missing == p0 = "" \/ ~Exists(st, p0)
        gen == generate_script(st, name, tpl, gio, sio)
        st1 == IF missing THEN gen.st ELSE st
        path == Get(get_script(st1, name), "script_path", "")
        st2 == IF Exists(st1, path) /\ ~st1.files[path].exec /\ cio = "ok"
               THEN [st1 EXCEPT !.files = Chmod(st1.files, path)] ELSE st1
    IN  IF ~Truthy(c0) THEN [st |-> st, ret |-> FALSE, launched |-> ""]
        ELSE IF missing /\ ~gen.ret THEN [st |-> gen.st, ret |-> FALSE, launched |-> ""]
        ELSE IF missing /\ (path = "" \/ ~Exists(st1, path))
        THEN [st |-> st1, ret |-> FALSE, launched |-> ""]
        ELSE IF ~st1.files[path].exec /\ cio = "fails"
        THEN [st |-> st1, ret |-> FALSE, launched |-> ""]
        ELSE IF pio = "fails" THEN [st |-> st2, ret |-> FALSE, launched |-> ""]
        ELSE [st |-> st2, ret |-> TRUE, launched |-> path]

----------------------------------------------------------------------------
(* KWinManager *)

(* KWinManager.set_shortcut.  The shortcut is written into the stored dict *)
(* and saved (the result of the save is not looked at) before the KDE      *)
(* shortcut editor is started; opened: one of the ways to start the editor *)
(* worked, which is what the method returns.                               *)
set_shortcut(st, name, shortcut, sio, opened) ==
    LET c == get_script(st, name)
        path == Get(c, "script_path", "")
        marked == [st EXCEPT !.scripts = SetKey(st.scripts, name,
                                                SetKey(c, "kwin_shortcut", shortcut))]
    IN  IF ~Truthy(c) THEN [st |-> st, ret |-> FALSE]
        ELSE IF path = "" \/ ~Exists(st, path) THEN [st |-> st, ret |-> FALSE]
        ELSE [st |-> save_script(marked, name, marked.scripts[name], sio).st,
              ret |-> opened]

(* remove_shortcut that leaves the kwin_shortcut key in the stored dict *)
remove_shortcut_kept(st, name, sio) ==
    LET c == get_script(st, name)
    IN  IF ~Truthy(c) THEN [st |-> st, ret |-> FALSE]
        ELSE [st |-> save_script(st, name, c, sio).st, ret |-> TRUE]

(* KWinManager.remove_shortcut.  The result of the save is not looked at;  *)
(* whether the shortcut editor opens or not, the method returns True.      *)
remove_shortcut(st, name, sio) ==
    LET c == get_script(st, name)
        cleared == [st EXCEPT !.scripts = SetKey(st.scripts, name, DelKey(c, "kwin_shortcut"))]
    IN  IF ~Truthy(c) THEN [st |-> st, ret |-> FALSE]
        ELSE [st |-> save_script(cleared, name, cleared.scripts[name], sio).st,
              ret |-> TRUE]

(* KWinManager.get_shortcuts *)
get_shortcuts(st) ==
    LET named == {n \in DOMAIN st.scripts : Get(st.scripts[n], "kwin_shortcut", "") # ""}
    IN  [n \in named |-> st.scripts[n].kwin_shortcut]

----------------------------------------------------------------------------
(* CLI commands.  An option that was not given is None; `args.x or ""`     *)
(* makes it the empty string.                                              *)

(* cmd_create, the configuration it builds *)
CliConfig(name, app_command, window_class) ==
    [name |-> name, app_command |-> app_command, app_process |-> app_command,
     window_class |-> window_class, tray_name |-> name \o " Toggle",
     script_path |-> "", notifications |-> TRUE, debug |-> FALSE]

(* cmd_create without its look-up of the name *)
cmd_create_unchecked(st, name, app_command, window_class, tpl, io1, gio, io2) ==
    LET script_config == CliConfig(name, app_command, window_class)
        made == create_toggle(st, name, script_config, tpl, io1, gio, io2)
    IN  IF app_command = "" \/ window_class = "" THEN [st |-> st, ret |-> 1]
        ELSE [st |-> made.st, ret |-> IF made.ret THEN 0 ELSE 1]

(* cmd_create; ret is the exit code *)
cmd_create(st, name, app_command, window_class, tpl, io1, gio, io2) ==
    LET script_config == CliConfig(name, app_command, window_class)
        made == create_toggle(st, name, script_config, tpl, io1, gio, io2)
    IN  IF Truthy(get_script(st, name)) THEN [st |-> st, ret |-> 1]
        ELSE IF app_command = "" \/ window_class = "" THEN [st |-> st, ret |-> 1]
        ELSE [st |-> made.st, ret |-> IF made.ret THEN 0 ELSE 1]

(* cmd_kwin_shortcut; ret is the exit code *)
cmd_kwin_shortcut(st, name, shortcut, sio, opened) ==
    LET set == set_shortcut(st, name, shortcut, sio, opened)
    IN  IF ~Truthy(get_script(st, name)) THEN [st |-> st, ret |-> 1]
        ELSE [st |-> set.st, ret |-> IF set.ret THEN 0 ELSE 1]

----------------------------------------------------------------------------
(* Actions: one call of an operation by a user of the program, with the    *)
(* outcomes of its system calls.  In every handler the first call that     *)
(* fails ends it, except the save at its end, so the outcomes to tell      *)
(* apart are: no call fails, or one does.  A failure of a call that the    *)
(* handler does not reach is the run without it.                           *)

(* The order of the dict is followed where the main window iterates the   *)
(* dict; no operation of the managers depends on it, and the behaviours    *)
(* without the window carry NoOrder in its place.                          *)
NoOrder == <<"">>

(* a Python dict keeps its keys in the order they were first inserted: a   *)
(* key that is deleted leaves, a new key goes to the end                   *)
Reorder(order, d) ==
    LET kept == SelectSeq(order, LAMBDA n : n \in DOMAIN d)
        RECURSIVE Rest(_)
        Rest(S) == IF S = {} THEN <<>>
                   ELSE LET n == CHOOSE x \in S : TRUE IN <<n>> \o Rest(S \ {n})
    IN  IF order = NoOrder THEN NoOrder
        ELSE kept \o Rest(DOMAIN d \ {order[i] : i \in DOMAIN order})

Commit(st) ==
    /\ scripts' = st.scripts
    /\ scriptOrder' = Reorder(scriptOrder, st.scripts)
    /\ jsonFiles' = st.jsonFiles
    /\ files' = st.files
    /\ running_processes' = st.rp
    /\ osAlive' = st.alive

Did(op, name, ok, cfg, arg, launched, killed) ==
    last' = [op |-> op, name |-> name, ok |-> ok, cfg |-> cfg, arg |-> arg,
             launched |-> launched, killed |-> killed, dialog |-> "", raised |-> ""]

(* <<first save, write and chmod, last save>> of create and update *)
GenPlans ==
    {<<"ok", "ok", "ok">>,
     <<"open_fails", "ok", "ok">>, <<"dump_fails", "ok", "ok">>,
     <<"ok", "write_fails", "ok">>, <<"ok", "chmod_fails", "ok">>,
     <<"ok", "ok", "open_fails">>, <<"ok", "ok", "dump_fails">>}

(* <<write and chmod, save, chmod of run_toggle, Popen>> *)
RunPlans ==
    {<<"ok", "ok", "ok", "ok">>,
     <<"write_fails", "ok", "ok", "ok">>, <<"chmod_fails", "ok", "ok", "ok">>,
     <<"ok", "open_fails", "ok", "ok">>, <<"ok", "dump_fails", "ok", "ok">>,
     <<"ok", "ok", "fails", "ok">>, <<"ok", "ok", "ok", "fails">>}

(* <<os.remove, unlink>> *)
DelPlans == {<<"ok", "ok">>, <<"fails", "ok">>, <<"ok", "fails">>}

AllOk(plan) == \A i \in DOMAIN plan : plan[i] = "ok"

(* A plan with a failure is taken while failures are left, and only when   *)
(* the failing call is reached (r differs from r0, the run without it).    *)
Fails(plan, r, r0) ==
    /\ AllOk(plan) \/ (faults < MaxFaults /\ r # r0)
    /\ faults' = IF AllOk(plan) THEN faults ELSE faults + 1

CreateToggle ==
    \E name \in Names : \E config \in InputConfigs(name), plan \in GenPlans :
        LET r == create_toggle(Store, name, config, template, plan[1], plan[2], plan[3])
            r0 == create_toggle(Store, name, config, template, "ok", "ok", "ok")
        IN  /\ Fails(plan, r, r0)
            /\ Commit(r.st)
            /\ Did("create_toggle", name, r.ret, config, "", "", FALSE)
            /\ UNCHANGED <<template, deskVars, guiVars, scanVars>>

UpdateToggle ==
    \E name \in Names : \E config \in InputConfigs(name), plan \in GenPlans :
        LET r == update_toggle(Store, name, config, template, plan[1], plan[2], plan[3])
            r0 == update_toggle(Store, name, config, template, "ok", "ok", "ok")
        IN  /\ Fails(plan, r, r0)
            /\ Commit(r.st)
            /\ Did("update_toggle", name, r.ret, config, "", "", FALSE)
            /\ UNCHANGED <<template, deskVars, guiVars, scanVars>>

DeleteToggle ==
    \E name \in Names, plan \in DelPlans :
        LET r == delete_toggle(Store, name, plan[1], plan[2])
            r0 == delete_toggle(Store, name, "ok", "ok")
        IN  /\ Fails(plan, r, r0)
            /\ Commit(r.st)
            /\ Did("delete_toggle", name, r.ret, None, "", "", r.killed)
            /\ UNCHANGED <<template, deskVars, guiVars, scanVars>>

RunToggle ==
    \E name \in Names, plan \in RunPlans :
        LET r == run_toggle(Store, name, template, plan[1], plan[2], plan[3], plan[4])
            r0 == run_toggle(Store, name, template, "ok", "ok", "ok", "ok")
        IN  /\ Fails(plan, r, r0)
            /\ Commit(r.st)
            /\ Did("run_toggle", name, r.ret, None, "", r.launched, FALSE)
            /\ UNCHANGED <<template, deskVars, guiVars, scanVars>>

(* ScriptEditorDialog._on_test_script and initialize_default call          *)
(* ConfigManager.save_script themselves.                                   *)
SaveScript ==
    \E name \in Names : \E config \in ValidConfigs(name), io \in SaveOutcomes :
        LET r == save_script(Store, name, config, io)
            r0 == save_script(Store, name, config, "ok")
        IN  /\ Fails(<<io>>, r, r0)
            /\ Commit(r.st)
            /\ Did("save_script", name, r.ret, config, "", "", FALSE)
            /\ UNCHANGED <<template, deskVars, guiVars, scanVars>>

SetShortcut ==
    \E name \in Names, shortcut \in Shortcuts, sio \in SaveOutcomes, opened \in BOOLEAN :
        LET r == set_shortcut(Store, name, shortcut, sio, opened)
            r0 == set_shortcut(Store, name, shortcut, "ok", opened)
        IN  /\ Fails(<<sio>>, r, r0)
            /\ Commit(r.st)
            /\ Did("set_shortcut", name, r.ret, None, shortcut, "", FALSE)
            /\ UNCHANGED <<template, deskVars, guiVars, scanVars>>

RemoveShortcut ==
    \E name \in Names, sio \in SaveOutcomes :
        LET r == remove_shortcut(Store, name, sio)
            r0 == remove_shortcut(Store, name, "ok")
        IN  /\ Fails(<<sio>>, r, r0)
            /\ Commit(r.st)
            /\ Did("remove_shortcut", name, r.ret, None,
                   Get(get_script(Store, name), "kwin_shortcut", ""), "", FALSE)
            /\ UNCHANGED <<template, deskVars, guiVars, scanVars>>

CmdCreate ==
    \E name \in Names, app_command \in {"", "app"}, window_class \in {"", "cls"},
       plan \in GenPlans :
        LET r == cmd_create(Store, name, app_command, window_class, template,
                            plan[1], plan[2], plan[3])
            r0 == cmd_create(Store, name, app_command, window_class, template,
                             "ok", "ok", "ok")
        IN  /\ Fails(plan, r, r0)
            /\ Commit(r.st)
            /\ Did("cmd_create", name, r.ret = 0,
                   CliConfig(name, app_command, window_class), "", "", FALSE)
            /\ UNCHANGED <<template, deskVars, guiVars, scanVars>>

CmdKwinShortcut ==
    \E name \in Names, shortcut \in Shortcuts, sio \in SaveOutcomes, opened \in BOOLEAN :
        LET r == cmd_kwin_shortcut(Store, name, shortcut, sio, opened)
            r0 == cmd_kwin_shortcut(Store, name, shortcut, "ok", opened)
        IN  /\ Fails(<<sio>>, r, r0)
            /\ Commit(r.st)
            /\ Did("cmd_kwin_shortcut", name, r.ret = 0, None, shortcut, "", FALSE)
            /\ UNCHANGED <<template, deskVars, guiVars, scanVars>>

(* ToggleManager.is_toggle_running / get_running_toggles refresh the cache *)
IsToggleRunning ==
    \E name \in Names :
        LET st == _update_process_cache(Store)
        IN  /\ Commit(st)
            /\ Did("is_toggle_running", name, name \in DOMAIN st.rp, None, "", "", FALSE)
            /\ UNCHANGED <<template, faults, deskVars, guiVars, scanVars>>

(* The program is started anew: ConfigManager.__init__ loads the scripts   *)
(* directory, ToggleManager.__init__ starts with an empty cache.           *)
Restart ==
    \E order \in GlobOrders(jsonFiles) :
        /\ scripts' = _load_scripts(jsonFiles, order)
        /\ scriptOrder' = IF scriptOrder = NoOrder THEN NoOrder
                          ELSE SelectSeq(order, LAMBDA n : n \in DOMAIN scripts')
        /\ running_processes' = EmptyDict
        /\ Did("restart", "", TRUE, None, "", "", FALSE)
        /\ UNCHANGED <<jsonFiles, files, template, osAlive, faults, deskVars, guiVars, scanVars>>

(* ScriptGenerator.install_template writes the template file *)
InstallTemplate ==
    /\ ~template
    /\ template' = TRUE
    /\ Did("install_template", "", TRUE, None, "", "", FALSE)
    /\ UNCHANGED <<scripts, scriptOrder, jsonFiles, files, osAlive, running_processes,
                   faults, deskVars, guiVars, scanVars>>

(* The application of the toggles is started or ends, outside the program *)
AppStartsOrEnds ==
    /\ osAlive' = ~osAlive
    /\ Did("app", "", TRUE, None, "", "", FALSE)
    /\ UNCHANGED <<scripts, scriptOrder, jsonFiles, files, template, running_processes,
                   faults, deskVars, guiVars, scanVars>>

----------------------------------------------------------------------------
(* The generated toggle script (the template of _get_default_template with *)
(* the variables of Render in place), run against a desktop.  desk is      *)
(* [proc, wins]; a window is [id, min].  The script is not a Chrome app    *)
(* (APP_ID is empty), so find_windows' Chrome branch is not taken.         *)

(* log_debug: what it writes to standard output, as words *)
log_debug(sc, msg) == IF sc.DEBUG = "true" THEN <<"[DEBUG]", msg>> ELSE <<>>

WinIds(desk) == [i \in 1..Len(desk.wins) |-> desk.wins[i].id]

(* find_windows: its standard output, as words.  The KWin window list is   *)
(* tried first, xdotool search when that gave nothing; the debug lines go  *)
(* to the same standard output as the window ids.                          *)
find_windows(desk, sc, tl) ==
    LET kde == IF tl.kwin THEN WinIds(desk) ELSE <<>>
        matching_windows == IF kde = <<>> /\ tl.xdotool THEN WinIds(desk) ELSE kde
    IN  log_debug(sc, "Searching for windows with class") \o matching_windows

(* window_ids=($(find_windows)): the words of the output become the array *)
window_ids(desk, sc, tl) == find_windows(desk, sc, tl)

(* is_minimized: KWin's isMinimized, else xprop's window state *)
is_minimized(desk, tl, win_id) ==
    /\ tl.kwin \/ tl.xprop
    /\ \E i \in 1..Len(desk.wins) : desk.wins[i].id = win_id /\ desk.wins[i].min

SetMin(desk, win_id, m) ==
    [desk EXCEPT !.wins = [i \in 1..Len(desk.wins) |->
                              IF desk.wins[i].id = win_id
                              THEN [desk.wins[i] EXCEPT !.min = m] ELSE desk.wins[i]]]

(* activate_window: unminimizeWindow and forceActiveWindow of KWin,        *)
(* windowmap and windowactivate of xdotool                                 *)
activate_window(desk, tl, win_id) ==
    IF tl.kwin \/ tl.xdotool THEN SetMin(desk, win_id, FALSE) ELSE desk

(* minimize_window: minimizeWindow of KWin, windowminimize of xdotool *)
minimize_window(desk, tl, win_id) ==
    IF tl.kwin \/ tl.xdotool THEN SetMin(desk, win_id, TRUE) ELSE desk

(* main, the loop over window_ids[1..]: xdotool windowclose of each *)
close_duplicates(desk, tl, ids) ==
    LET extra == {ids[i] : i \in 2..Len(ids)}
        keep == SelectSeq(desk.wins, LAMBDA w : w.id \notin extra)
    IN  IF tl.xdotool THEN [desk EXCEPT !.wins = keep] ELSE desk

(* is_app_running: pgrep -f APP_PROCESS finds a process *)
is_app_running(desk) == desk.proc # "none"

(* is_starting_up: a process found by pgrep is younger than 5 seconds *)
is_starting_up(desk) == desk.proc = "starting"

(* show_notification *)
show_notification(sc, message) == IF sc.NOTIFICATIONS = "true" THEN <<message>> ELSE <<>>

E_DEPS_MISSING == 2

E_APP_LAUNCH == 3

(* $? after `eval "$APP_COMMAND" &`: the status of starting a job in the *)
(* background, which is 0 whatever becomes of the command                *)
BackgroundStatus == 0

NewWinId(desk) ==
    CHOOSE w \in {"w1", "w2", "w3", "w4"} : \A i \in 1..Len(desk.wins) : desk.wins[i].id # w

(* The application after the launch command and `sleep 3`.  started: the   *)
(* command brought up the application; appears: it has opened a window.    *)
Launched(desk, started, appears) ==
    IF ~started THEN desk
    ELSE [proc |-> IF desk.proc = "none" THEN "starting" ELSE desk.proc,
          wins |-> IF appears /\ Len(desk.wins) < MaxWindows
                   THEN Append(desk.wins, [id |-> NewWinId(desk), min |-> FALSE])
                   ELSE desk.wins]

Act(a, w) == [act |-> a, win |-> w]

(* main, the two branches that launch the application *)
launch_branch(desk, sc, tl, started, appears) ==
    LET after == Launched(desk, started, appears)
        ids == window_ids(after, sc, tl)
        begun == show_notification(sc, "Launching application...")
    IN  IF BackgroundStatus # 0
        THEN [desk |-> desk, exit |-> E_APP_LAUNCH, acts |-> <<Act("launch", "")>>,
              notes |-> begun \o show_notification(sc, "Error: Failed to launch application")]
        ELSE IF Len(ids) > 0
        THEN [desk |-> activate_window(after, tl, ids[1]), exit |-> 0,
              acts |-> <<Act("launch", ""), Act("activate", ids[1])>>,
              notes |-> begun \o show_notification(sc, "Application is now active")]
        ELSE [desk |-> after, exit |-> 0, acts |-> <<Act("launch", "")>>,
              notes |-> begun \o show_notification(sc, "Warning: Application window not found")]

(* main, the branch taken while the application is starting up *)
starting_branch(desk, sc, tl) ==
    LET ids == window_ids(desk, sc, tl)
        win_id == IF Len(ids) > 0 THEN ids[1] ELSE ""
        active == activate_window(desk, tl, win_id)
    IN  [desk |-> close_duplicates(active, tl, ids), exit |-> 0,
         acts |-> <<Act("activate", win_id)>>,
         notes |-> show_notification(sc, "App is starting...")
                   \o show_notification(sc, "Application is now active")]

(* main, the branch that toggles the first window *)
toggle_branch(desk, sc, tl) ==
    LET ids == window_ids(desk, sc, tl)
        win_id == ids[1]
        single == close_duplicates(desk, tl, ids)
    IN  IF is_minimized(single, tl, win_id)
        THEN [desk |-> activate_window(single, tl, win_id), exit |-> 0,
              acts |-> <<Act("activate", win_id)>>,
              notes |-> show_notification(sc, "Restoring application")]
        ELSE [desk |-> minimize_window(single, tl, win_id), exit |-> 0,
              acts |-> <<Act("minimize", win_id)>>,
              notes |-> show_notification(sc, "Application minimized")]

(* main: one run of the script *)
main(desk, sc, tl, started, appears) ==
    IF ~tl.qdbus
    THEN [desk |-> desk, exit |-> E_DEPS_MISSING, acts |-> <<>>, notes |-> <<>>]
    ELSE IF is_app_running(desk)
    THEN IF Len(window_ids(desk, sc, tl)) > 0
         THEN IF is_starting_up(desk) THEN starting_branch(desk, sc, tl)
              ELSE toggle_branch(desk, sc, tl)
         ELSE launch_branch(desk, sc, tl, started, appears)
    ELSE launch_branch(desk, sc, tl, started, appears)

Desk == [proc |-> proc, wins |-> wins]

NoRun == [exit |-> 0, acts |-> <<>>, notes |-> <<>>, failed |-> FALSE]

(* The script is run (by run_toggle's Popen or by the keyboard shortcut) *)
RunScript ==
    \E started, appears \in BOOLEAN :
        LET r == main(Desk, script, tools, started, appears)
        IN  /\ proc' = r.desk.proc
            /\ wins' = r.desk.wins
            /\ run' = [exit |-> r.exit, acts |-> r.acts, notes |-> r.notes,
                       failed |-> ~started /\ r.acts # <<>> /\ r.acts[1].act = "launch"]
            /\ runLog' = IF Len(runLog) < 2 THEN Append(runLog, Desk) ELSE <<runLog[2], Desk>>
            /\ UNCHANGED <<script, tools, mgrVars, guiVars, scanVars>>

(* What happens on the desktop besides *)
AppSettles ==
    /\ proc = "starting"
    /\ proc' = "running"
    /\ runLog' = <<>>
    /\ UNCHANGED <<wins, run, script, tools, mgrVars, guiVars, scanVars>>

AppExits ==
    /\ proc # "none"
    /\ proc' = "none"
    /\ wins' = <<>>
    /\ runLog' = <<>>
    /\ UNCHANGED <<run, script, tools, mgrVars, guiVars, scanVars>>

WindowOpens ==
    /\ proc # "none"
    /\ Len(wins) < MaxWindows
    /\ wins' = Append(wins, [id |-> NewWinId(Desk), min |-> FALSE])
    /\ runLog' = <<>>
    /\ UNCHANGED <<proc, run, script, tools, mgrVars, guiVars, scanVars>>

UserMinimizesOrRestores ==
    \E i \in 1..Len(wins) :
        /\ wins' = [wins EXCEPT ![i].min = ~wins[i].min]
        /\ runLog' = <<>>
        /\ UNCHANGED <<proc, run, script, tools, mgrVars, guiVars, scanVars>>

----------------------------------------------------------------------------
(* MainWindow: the table of toggles and the handlers of its actions.  A    *)
(* handler returns [st, rows, selected, ok, dialog, raised]: the message   *)
(* box it showed ("" when none) and the exception that left it uncaught    *)
(* ("" when none).                                                         *)

(* the methods class ToggleManager defines *)
ToggleManagerMethods ==
    {"__init__", "create_toggle", "update_toggle", "delete_toggle", "run_toggle",
     "test_toggle", "test_toggle_with_timeout", "get_running_toggles",
     "is_toggle_running", "_update_process_cache", "_stop_process",
     "_validate_config", "export_toggle"}

(* MainWindow._get_selected_script: the name in the selected row, "" for   *)
(* None                                                                    *)
_get_selected_script(rws, sel) == IF sel < 0 THEN "" ELSE rws[sel + 1]

(* _load_scripts that restores the selection by its row, not by the name   *)
(* in it                                                                   *)
MainWindow_load_scripts_by_row(st, order, rws, sel) ==
    LET running == _update_process_cache(st)
        same == Len(rws) = Len(order)
        held == IF same THEN sel ELSE -1
    IN  [st |-> running, rows |-> order,
         selected |-> IF sel >= 0 /\ sel < Len(order) THEN sel ELSE held,
         ok |-> TRUE, dialog |-> "", raised |-> ""]

(* MainWindow._load_scripts.  order: scripts.items() in dict order.  With  *)
(* as many rows as scripts the rows are rewritten in place and the         *)
(* selection of the table stays on its row; otherwise setRowCount(0) drops *)
(* the rows and the selection and the rows are inserted anew.              *)
(* current_selected_row starts as the selected row and becomes the row of  *)
(* the selected name when the name is met; selectRow is called with it     *)
(* when it is a row of the table.                                          *)
MainWindow_load_scripts(st, order, rws, sel) ==
    LET running == _update_process_cache(st)
        current_selected_name == IF sel >= 0 THEN rws[sel + 1] ELSE ""
        met == {row \in 0..(Len(order) - 1) : order[row + 1] = current_selected_name}
        current_selected_row == IF met # {} THEN CHOOSE row \in met : TRUE ELSE sel
        same == Len(rws) = Len(order)
        updated == [row \in 1..Len(rws) |-> order[row]]
        rebuilt == order
        table == IF same THEN updated ELSE rebuilt
        held == IF same THEN sel ELSE -1
    IN  [st |-> running, rows |-> table,
         selected |-> IF current_selected_row >= 0 /\ current_selected_row < Len(table)
                      THEN current_selected_row ELSE held,
         ok |-> TRUE, dialog |-> "", raised |-> ""]

(* MainWindow._on_duplicate_script.  toggle_manager.duplicate_toggle is    *)
(* looked up on a ToggleManager: a name the class does not define raises   *)
(* AttributeError there, and the lines after the call are not run.         *)
_on_duplicate_script(st, rws, sel, new_name, ok) ==
    LET script_name == _get_selected_script(rws, sel)
        same == [st |-> st, rows |-> rws, selected |-> sel, ok |-> FALSE,
                 dialog |-> "", raised |-> ""]
    IN  IF script_name = "" THEN [same EXCEPT !.dialog = "warning"]
        ELSE IF ~ok \/ new_name = "" THEN same
        ELSE IF "duplicate_toggle" \notin ToggleManagerMethods
        THEN [same EXCEPT !.raised = "AttributeError"]
        ELSE same

(* MainWindow._on_remove_script.  confirm: the answer to the question is   *)
(* Yes.                                                                    *)
_on_remove_script(st, order, rws, sel, confirm, rio, uio) ==
    LET script_name == _get_selected_script(rws, sel)
        removed == delete_toggle(st, script_name, rio, uio)
        same == [st |-> st, rows |-> rws, selected |-> sel, ok |-> FALSE,
                 dialog |-> "", raised |-> ""]
    IN  IF script_name = "" THEN [same EXCEPT !.dialog = "warning"]
        ELSE IF ~confirm THEN same
        ELSE IF removed.ret
        THEN MainWindow_load_scripts(removed.st, Reorder(order, removed.st.scripts), rws, sel)
        ELSE [same EXCEPT !.st = removed.st, !.dialog = "critical"]

(* MainWindow._on_new_script with ScriptEditorDialog.accept: the dialog is  *)
(* filled in with name and the fields of data and closed with OK.  A name  *)
(* that is stored is refused by _validate_script_data; an empty            *)
(* script_path becomes the default path; the window reloads the table when *)
(* the dialog was accepted, which it is when create_toggle succeeded.      *)
_on_new_script(st, order, rws, sel, name, data, tpl, io1, gio, io2) ==
    LET script_data == IF data.script_path = ""
                       THEN [data EXCEPT !.script_path = DefaultPath(name)] ELSE data
        made == create_toggle(st, name, script_data, tpl, io1, gio, io2)
        same == [st |-> st, rows |-> rws, selected |-> sel, ok |-> FALSE,
                 dialog |-> "", raised |-> ""]
    IN  IF name = "" \/ Truthy(get_script(st, name)) THEN [same EXCEPT !.dialog = "critical"]
        ELSE IF made.ret
        THEN MainWindow_load_scripts(made.st, Reorder(order, made.st.scripts), rws, sel)
        ELSE [same EXCEPT !.st = made.st, !.dialog = "critical"]

DidGui(op, name, arg, r) ==
    last' = [op |-> op, name |-> name, ok |-> r.ok, cfg |-> None, arg |-> arg,
             launched |-> "", killed |-> FALSE, dialog |-> r.dialog, raised |-> r.raised]

Show(r) ==
    /\ Commit(r.st)
    /\ rows' = r.rows
    /\ selected' = r.selected

(* the refresh timer fires; last tells the name that was selected and      *)
(* whether the rows were updated in place or rebuilt                       *)
LoadScripts ==
    LET r == MainWindow_load_scripts(Store, scriptOrder, rows, selected)
    IN  /\ Show(r)
        /\ DidGui("_load_scripts", _get_selected_script(rows, selected),
                  IF Len(rows) = Len(scriptOrder) THEN "updated" ELSE "rebuilt", r)
        /\ UNCHANGED <<template, faults, deskVars, scanVars>>

(* the user clicks a row of the table *)
SelectRow ==
    \E row \in 0..(Len(rows) - 1) :
        /\ selected' = row
        /\ Did("select", rows[row + 1], TRUE, None, "", "", FALSE)
        /\ UNCHANGED <<scripts, scriptOrder, jsonFiles, files, template, osAlive,
                       running_processes, faults, deskVars, rows, scanVars>>

(* 'New Toggle' *)
OnNewScript ==
    \E name \in Names : \E data \in ValidConfigs(name), plan \in GenPlans :
        LET r == _on_new_script(Store, scriptOrder, rows, selected, name, data, template,
                                plan[1], plan[2], plan[3])
            r0 == _on_new_script(Store, scriptOrder, rows, selected, name, data, template,
                                 "ok", "ok", "ok")
        IN  /\ Fails(plan, r, r0)
            /\ Show(r)
            /\ DidGui("_on_new_script", name, "", r)
            /\ UNCHANGED <<template, deskVars, scanVars>>

(* 'Duplicate Toggle'; the name entered in the input dialog and whether it *)
(* was closed with OK                                                      *)
OnDuplicateScript ==
    \E new_name \in Names \cup {""}, ok \in BOOLEAN :
        LET r == _on_duplicate_script(Store, rows, selected, new_name, ok)
        IN  /\ Show(r)
            /\ DidGui("_on_duplicate_script", _get_selected_script(rows, selected),
                      IF ok THEN new_name ELSE "", r)
            /\ UNCHANGED <<template, faults, deskVars, scanVars>>

(* 'Remove Toggle' *)
OnRemoveScript ==
    \E confirm \in BOOLEAN, plan \in DelPlans :
        LET r == _on_remove_script(Store, scriptOrder, rows, selected, confirm, plan[1], plan[2])
            r0 == _on_remove_script(Store, scriptOrder, rows, selected, confirm, "ok", "ok")
        IN  /\ Fails(plan, r, r0)
            /\ Show(r)
            /\ DidGui("_on_remove_script", _get_selected_script(rows, selected), "", r)
            /\ UNCHANGED <<template, deskVars, scanVars>>

----------------------------------------------------------------------------
(* web_app_detector.scan_web_apps_in_background.  A thread is              *)
(* [callback, daemon, pc, apps, calls, got]: whether a callback was given, *)
(* where _scan_thread is ("start", "scanned", "done", or "raised" when the *)
(* scan left it with an exception), the list get_all_web_apps returned,    *)
(* how often the callback was called and the list it was called with.      *)

WebAppDetector_detect_chrome_web_apps(disk) == disk.chrome

WebAppDetector_detect_firefox_web_apps(disk) == disk.firefox

(* get_all_web_apps without the Firefox web apps *)
get_all_web_apps_chrome(disk) == WebAppDetector_detect_chrome_web_apps(disk)

(* WebAppDetector.get_all_web_apps *)
get_all_web_apps(disk) ==
    WebAppDetector_detect_chrome_web_apps(disk) \o WebAppDetector_detect_firefox_web_apps(disk)

(* threading.Thread(target=_scan_thread); thread.daemon = True;            *)
(* thread.start()                                                          *)
NewThread(callback) ==
    [callback |-> callback, daemon |-> TRUE, pc |-> "start", apps |-> <<>>,
     calls |-> 0, got |-> <<>>]

(* the caller makes the thread and starts it *)
ScanInBackground ==
    \E callback \in BOOLEAN :
        /\ scanCaller = "idle"
        /\ Len(scanThreads) < MaxScans
        /\ scanThreads' = Append(scanThreads, NewThread(callback))
        /\ scanCaller' = "started"
        /\ UNCHANGED <<webApps, mgrVars, deskVars, guiVars>>

(* return thread *)
ScanReturns ==
    /\ scanCaller = "started"
    /\ scanCaller' = "idle"
    /\ UNCHANGED <<webApps, scanThreads, mgrVars, deskVars, guiVars>>

(* _scan_thread: apps = detector.get_all_web_apps() *)
ThreadScans ==
    \E i \in 1..Len(scanThreads) :
        /\ scanThreads[i].pc = "start"
        /\ scanThreads' = [scanThreads EXCEPT ![i].pc = "scanned",
                                              ![i].apps = get_all_web_apps(webApps)]
        /\ UNCHANGED <<webApps, scanCaller, mgrVars, deskVars, guiVars>>

(* _scan_thread: an exception leaves the scan; the thread ends with it *)
ThreadRaises ==
    \E i \in 1..Len(scanThreads) :
        /\ scanThreads[i].pc = "start"
        /\ scanThreads' = [scanThreads EXCEPT ![i].pc = "raised"]
        /\ UNCHANGED <<webApps, scanCaller, mgrVars, deskVars, guiVars>>

(* _scan_thread: if callback: callback(apps) *)
ThreadCallsBack ==
    \E i \in 1..Len(scanThreads) :
        /\ scanThreads[i].pc = "scanned"
        /\ scanThreads' =
              IF scanThreads[i].callback
              THEN [scanThreads EXCEPT ![i].pc = "done", ![i].calls = @ + 1,
                                       ![i].got = scanThreads[i].apps]
              ELSE [scanThreads EXCEPT ![i].pc = "done"]
        /\ UNCHANGED <<webApps, scanCaller, mgrVars, deskVars, guiVars>>

----------------------------------------------------------------------------
MgrInit ==
    /\ scripts = EmptyDict
    /\ jsonFiles = EmptyDict
    /\ files = EmptyDict
    /\ osAlive = FALSE
    /\ running_processes = EmptyDict
    /\ faults = 0
    /\ last = [op |-> "init", name |-> "", ok |-> TRUE, cfg |-> None, arg |-> "",
               launched |-> "", killed |-> FALSE, dialog |-> "", raised |-> ""]

(* MainWindow before its first _load_scripts: QTableWidget(0, 4); no scan  *)
(* has been asked for                                                      *)
GuiInit ==
    /\ rows = <<>>
    /\ selected = -1
    /\ webApps = [chrome |-> <<>>, firefox |-> <<>>]
    /\ scanCaller = "idle"
    /\ scanThreads = <<>>

DeskInit ==
    /\ proc = "none"
    /\ wins = <<>>
    /\ run = NoRun
    /\ runLog = <<>>

AllTools == [qdbus |-> TRUE, kwin |-> TRUE, xdotool |-> TRUE, xprop |-> TRUE]

ToolSets == {t \in [{"qdbus", "kwin", "xdotool", "xprop"} -> BOOLEAN] : t.kwin => t.qdbus}

Init ==
    /\ MgrInit
    /\ scriptOrder = NoOrder
    /\ template \in BOOLEAN
    /\ DeskInit
    /\ script = Render("b", CfgPlain("b"))
    /\ tools = AllTools
    /\ GuiInit

(* The generated script on a desktop: the script of a toggle with debug    *)
(* off or on, the tools installed or not.                                  *)
InitScript ==
    /\ MgrInit
    /\ scriptOrder = NoOrder
    /\ template = TRUE
    /\ DeskInit
    /\ script \in {Render("b", c) : c \in {CfgPlain("b"), CfgDebug("b")}}
    /\ tools \in ToolSets
    /\ GuiInit

(* The main window of an installed program, before its first refresh *)
InitGui ==
    /\ MgrInit
    /\ scriptOrder = <<>>
    /\ template = TRUE
    /\ DeskInit
    /\ script = Render("b", CfgPlain("b"))
    /\ tools = AllTools
    /\ GuiInit

(* A program that scans for web apps, with what the browsers hold *)
InitScan ==
    /\ MgrInit
    /\ scriptOrder = NoOrder
    /\ template = TRUE
    /\ DeskInit
    /\ script = Render("b", CfgPlain("b"))
    /\ tools = AllTools
    /\ rows = <<>>
    /\ selected = -1
    /\ webApps \in [chrome : {<<>>, <<"chrome-app">>}, firefox : {<<>>, <<"firefox-app">>}]
    /\ scanCaller = "idle"
    /\ scanThreads = <<>>

NextScan ==
    \/ ScanInBackground
    \/ ScanReturns
    \/ ThreadScans
    \/ ThreadRaises
    \/ ThreadCallsBack

NextScript ==
    \/ RunScript
    \/ AppSettles
    \/ AppExits
    \/ WindowOpens
    \/ UserMinimizesOrRestores

Next ==
    \/ CreateToggle
    \/ UpdateToggle
    \/ DeleteToggle
    \/ RunToggle
    \/ SaveScript
    \/ CmdCreate
    \/ Restart
    \/ InstallTemplate

vars == <<mgrVars, deskVars, guiVars, scanVars>>

SpecScan == InitScan /\ [][NextScan]_vars

Spec == Init /\ [][Next]_vars

(* The shortcut bookkeeping on top of creating and deleting toggles *)
NextKwin ==
    \/ CreateToggle
    \/ DeleteToggle
    \/ SetShortcut
    \/ RemoveShortcut
    \/ CmdKwinShortcut

SpecKwin == Init /\ [][NextKwin]_vars

(* The cache of running processes on top of creating and deleting toggles *)
NextProc ==
    \/ CreateToggle
    \/ DeleteToggle
    \/ IsToggleRunning
    \/ AppStartsOrEnds

SpecProc == Init /\ [][NextProc]_vars

SpecScript == InitScript /\ [][NextScript]_vars

(* The main window; a toggle is also deleted behind its back *)
NextGui ==
    \/ OnNewScript
    \/ DeleteToggle
    \/ LoadScripts
    \/ SelectRow
    \/ OnDuplicateScript
    \/ OnRemoveScript

SpecGui == InitGui /\ [][NextGui]_vars

----------------------------------------------------------------------------
(* Properties of one run of the generated script (SpecScript) *)

(* the desktop before the last run of the script *)
Before == runLog[Len(runLog)]

(* the windows of class WINDOW_CLASS that the installed tools can list *)
Listed(desk) == IF tools.kwin \/ tools.xdotool THEN WinIds(desk) ELSE <<>>

Does(a) == \E i \in 1..Len(run.acts) : run.acts[i].act = a

Ran == Len(runLog) > 0 /\ tools.qdbus

(* C1: a run of the script launches the application when no process       *)
(* matches; when a process matches, a window of the class is found and the *)
(* application is not starting up, it activates the first window if that   *)
(* window is seen minimized and minimizes it otherwise, and does nothing   *)
(* else to a window; when a process matches and no window is found it      *)
(* launches the application; no run both minimizes and activates.          *)
C1_ActionFromObservedState ==
    Ran =>
        /\ Before.proc = "none" => Does("launch")
        /\ (Before.proc = "running" /\ Listed(Before) # <<>>) =>
               run.acts = IF is_minimized(Before, tools, Listed(Before)[1])
                          THEN <<Act("activate", Listed(Before)[1])>>
                          ELSE <<Act("minimize", Listed(Before)[1])>>
        /\ (Before.proc # "none" /\ Listed(Before) = <<>>) => Does("launch")
        /\ ~(Does("minimize") /\ Does("activate"))

(* the tools can list the windows, tell a minimized one and act on it *)
CanToggle == tools.qdbus /\ (tools.kwin \/ (tools.xdotool /\ tools.xprop))

OneWindow(desk) == desk.proc = "running" /\ Len(desk.wins) = 1

(* C2: with the application running (not starting up) and exactly one      *)
(* window of the class, a run of the script flips the minimized state of   *)
(* that window, and two runs in a row leave it as it was.                  *)
C2_ToggleAlternates ==
    /\ (Len(runLog) > 0 /\ CanToggle /\ OneWindow(Before)) =>
           /\ proc = "running"
           /\ Len(wins) = 1
           /\ wins[1].id = Before.wins[1].id
           /\ wins[1].min = ~Before.wins[1].min
    /\ (Len(runLog) = 2 /\ CanToggle /\ OneWindow(runLog[1])) => wins = runLog[1].wins

(* What C1 and C2 say holds of the runs of a script generated with debug   *)
(* off.                                                                    *)
C1_HoldsWithoutDebug == script.DEBUG = "false" => C1_ActionFromObservedState

C2_HoldsWithoutDebug == script.DEBUG = "false" => C2_ToggleAlternates

----------------------------------------------------------------------------
(* Properties of the operations on the store.  last' describes the step    *)
(* that is taken: the operation, its arguments and what it returned.       *)

(* one of app_command, app_process, window_class is absent from the dict   *)
(* or empty                                                                *)
LacksRequired(c) ==
    \E k \in {"app_command", "app_process", "window_class"} : k \notin DOMAIN c \/ c[k] = ""

StoreUnchanged == UNCHANGED <<scripts, jsonFiles, files>>

(* C3: create_toggle(name, config) with a config in which app_command,     *)
(* app_process or window_class is absent or empty returns failure, stores  *)
(* no configuration in memory or on disk and writes no script file.        *)
C3_InvalidCreateRejected ==
    [][(last'.op = "create_toggle" /\ LacksRequired(last'.cfg))
           => (~last'.ok /\ StoreUnchanged)]_vars

C3_Witness ==
    /\ last.op = "create_toggle"
    /\ last.cfg = CfgNoClass(last.name)
    /\ ~last.ok
    /\ last.name \notin DOMAIN scripts
    /\ scripts # EmptyDict

(* the last operation was op and it succeeded *)
Succeeded(op) == last.op = op /\ last.ok

(* the script path of the configuration stored under name *)
StoredPath(name) == Get(get_script(Store, name), "script_path", "")

(* the configuration in the JSON file of name, None when there is no file  *)
(* or json.load rejects it                                                 *)
OnDisk(name) ==
    IF name \in DOMAIN jsonFiles /\ jsonFiles[name].kind = "json"
    THEN JsonLoad(jsonFiles[name]) ELSE None

(* c and d have the same keys and values apart from script_path *)
SameButPath(c, d) == DelKey(c, "script_path") = DelKey(d, "script_path")

(* C4: when create_toggle(name, config) has returned success, get_script   *)
(* returns the configuration, the configuration in memory and the one in   *)
(* the JSON file carry a non-empty script_path, and an executable script   *)
(* file exists at that path.                                               *)
C4_CreatedFully ==
    Succeeded("create_toggle") =>
        /\ Truthy(get_script(Store, last.name))
        /\ SameButPath(get_script(Store, last.name), last.cfg)
        /\ StoredPath(last.name) # ""
        /\ Get(OnDisk(last.name), "script_path", "") = StoredPath(last.name)
        /\ Exists(Store, StoredPath(last.name))
        /\ files[StoredPath(last.name)].exec

(* C5: when delete_toggle(name) has returned success, get_script(name) is  *)
(* None, <name>.json is gone and so is the file that was at the toggle's   *)
(* script_path; for a name that is not stored it returns failure and       *)
(* changes nothing.                                                        *)
C5_DeletedFully ==
    [][last'.op = "delete_toggle" =>
          /\ last'.ok =>
                /\ last'.name \notin DOMAIN scripts'
                /\ last'.name \notin DOMAIN jsonFiles'
                /\ StoredPath(last'.name) \notin DOMAIN files'
          /\ last'.name \notin DOMAIN scripts => (~last'.ok /\ StoreUnchanged)]_vars

(* C6: update_toggle(name, config) on a name that is not stored returns    *)
(* failure and leaves the store as it is, and no update adds a name to the *)
(* store; when it returns success, the configuration get_script(name)      *)
(* returns is config with script_path set to the path of the script, and   *)
(* the file at that path is executable and is the script of config.        *)
C6_UpdateNeverCreates ==
    [][last'.op = "update_toggle" =>
          /\ last'.name \notin DOMAIN scripts => (~last'.ok /\ StoreUnchanged)
          /\ DOMAIN scripts' = DOMAIN scripts
          /\ last'.ok =>
                LET path == IF last'.cfg.script_path # "" THEN last'.cfg.script_path
                            ELSE DefaultPath(last'.name)
                IN  /\ ~LacksRequired(last'.cfg)
                    /\ scripts'[last'.name] = [last'.cfg EXCEPT !.script_path = path]
                    /\ path \in DOMAIN files'
                    /\ files'[path].exec
                    /\ files'[path].content = Render(last'.name, last'.cfg)]_vars

C6_Witness ==
    /\ Succeeded("update_toggle")
    /\ last.cfg = CfgCustom(last.name)
    /\ scripts[last.name].script_path = CustomPath
    /\ DefaultPath(last.name) \in DOMAIN files

(* C7: run_toggle(name) on a name that is not stored returns failure and   *)
(* starts nothing; when the script file is missing and nothing fails, the  *)
(* script is generated from the stored configuration and started; a run    *)
(* that returns failure has started nothing; on success the file started   *)
(* is the one at the toggle's script_path, it exists and is executable,    *)
(* and when it was missing before it is the script of the stored           *)
(* configuration.                                                          *)
C7_RunsOnlyExistingScript ==
    [][last'.op = "run_toggle" =>
          LET name == last'.name
              missing == StoredPath(name) = "" \/ ~Exists(Store, StoredPath(name))
          IN  /\ name \notin DOMAIN scripts =>
                    (~last'.ok /\ last'.launched = "" /\ StoreUnchanged)
              /\ ~last'.ok => last'.launched = ""
              /\ (name \in DOMAIN scripts /\ missing /\ template /\ faults' = faults)
                    => last'.ok
              /\ (missing /\ ~template) => ~last'.ok
              /\ last'.ok =>
                    /\ name \in DOMAIN scripts'
                    /\ last'.launched # ""
                    /\ last'.launched = scripts'[name].script_path
                    /\ last'.launched \in DOMAIN files'
                    /\ files'[last'.launched].exec
                    /\ missing => files'[last'.launched].content = Render(name, scripts[name])]_vars

C7_Witness ==
    /\ Succeeded("run_toggle")
    /\ last.launched = StoredPath(last.name)
    /\ files[last.launched].content = Render(last.name, scripts[last.name])
    /\ OnDisk(last.name) # None
    /\ Get(OnDisk(last.name), "script_path", "") = ""

(* C8: when save_script(name, config) has returned True, a ConfigManager   *)
(* that loads the scripts directory returns from get_script(name) a        *)
(* configuration equal to config.                                          *)
C8_SavedConfigLoadsBack ==
    Succeeded("save_script") =>
        \A order \in GlobOrders(jsonFiles) :
            LET loaded == _load_scripts(jsonFiles, order)
            IN  last.name \in DOMAIN loaded /\ loaded[last.name] = last.cfg

(* C9: cmd_create for a name that is stored returns 1 and leaves the       *)
(* store and the script files as they are; without --app-command or        *)
(* without --window-class it returns 1 and stores nothing.                 *)
C9_CmdCreateNeverOverwrites ==
    [][last'.op = "cmd_create" =>
          /\ last'.name \in DOMAIN scripts => (~last'.ok /\ StoreUnchanged)
          /\ (last'.cfg.app_command = "" \/ last'.cfg.window_class = "")
                => (~last'.ok /\ StoreUnchanged)]_vars

C9_Witness ==
    /\ last.op = "cmd_create"
    /\ ~last.ok
    /\ last.name \in DOMAIN scripts
    /\ last.cfg.app_command # ""
    /\ last.cfg.window_class # ""
    /\ scripts[last.name] # last.cfg
    /\ template
    /\ faults = 0

(* C10: set_shortcut(name, shortcut) on a name that is not stored, or      *)
(* whose script file does not exist, fails and leaves the configuration as *)
(* it is; when it has returned success the stored configuration has        *)
(* kwin_shortcut = shortcut and get_shortcuts() maps name to shortcut.     *)
C10_ShortcutRegistered ==
    [][last'.op = "set_shortcut" =>
          /\ (last'.name \notin DOMAIN scripts
                \/ StoredPath(last'.name) = "" \/ ~Exists(Store, StoredPath(last'.name)))
                => (~last'.ok /\ StoreUnchanged)
          /\ last'.ok =>
                /\ Get(scripts'[last'.name], "kwin_shortcut", "") = last'.arg
                /\ last'.name \in DOMAIN get_shortcuts([scripts |-> scripts'])
                /\ get_shortcuts([scripts |-> scripts'])[last'.name] = last'.arg]_vars

----------------------------------------------------------------------------
(* Properties of the shortcut bookkeeping (SpecKwin).  For remove_shortcut *)
(* last.arg is the shortcut the toggle had before the call.                *)

(* the shortcut the stored configuration of n carries, "" when none *)
ShortcutOf(sc, n) == IF "kwin_shortcut" \in DOMAIN sc[n] THEN sc[n].kwin_shortcut ELSE ""

(* get_shortcuts() lists the stored toggles with a non-empty kwin_shortcut *)
(* and maps each to it                                                     *)
ShortcutsExact ==
    LET s == get_shortcuts(Store)
    IN  /\ DOMAIN s = {n \in DOMAIN scripts : ShortcutOf(scripts, n) # ""}
        /\ \A n \in DOMAIN s : s[n] = ShortcutOf(scripts, n)

(* C11: get_shortcuts() returns exactly the stored toggles whose           *)
(* kwin_shortcut is not empty, each mapped to that shortcut; a call of     *)
(* remove_shortcut(name) on a stored toggle returns success, after it name *)
(* is not in get_shortcuts(), and the shortcut of every other toggle is    *)
(* what it was.                                                            *)
C11_ShortcutsListedAndRemoved ==
    /\ []ShortcutsExact
    /\ [][(last'.op = "remove_shortcut" /\ last'.name \in DOMAIN scripts) =>
             /\ last'.ok
             /\ DOMAIN scripts' = DOMAIN scripts
             /\ last'.name \notin DOMAIN get_shortcuts([scripts |-> scripts'])
             /\ \A n \in DOMAIN scripts \ {last'.name} :
                    /\ scripts'[n] = scripts[n]
                    /\ ShortcutOf(scripts', n) = ShortcutOf(scripts, n)]_vars

C11_Witness ==
    /\ last.op = "remove_shortcut"
    /\ last.ok
    /\ last.arg # ""
    /\ last.name \notin DOMAIN get_shortcuts(Store)
    /\ \E n \in DOMAIN get_shortcuts(Store) : n # last.name

----------------------------------------------------------------------------
(* Properties of the cache of running processes (SpecProc) *)

(* a process of the stored toggle name lives: pgrep -f finds one for its   *)
(* app_process                                                             *)
HasLiveProcess(name) ==
    /\ name \in DOMAIN scripts
    /\ Get(scripts[name], "app_process", "") # ""
    /\ Pgrep(Store, scripts[name].app_process)

(* C12: a call of delete_toggle(name) on a stored toggle with a live       *)
(* process sends the process SIGTERM, so that it has ended when the call   *)
(* returns.                                                                *)
C12_DeleteStopsProcesses ==
    [][(last'.op = "delete_toggle" /\ HasLiveProcess(last'.name))
          => (last'.killed /\ ~osAlive')]_vars

(* What C12 says holds of the calls made while the toggle is in the cache  *)
(* of running processes.                                                   *)
C12_HoldsWhenCached ==
    [][(last'.op = "delete_toggle" /\ HasLiveProcess(last'.name)
           /\ last'.name \in DOMAIN running_processes)
          => (last'.killed /\ ~osAlive')]_vars

----------------------------------------------------------------------------
(* Properties of the main window (SpecGui) *)

(* C13: 'Duplicate Toggle' on a selected stored toggle A with a new name B *)
(* that is not empty and not stored either creates B with a copy of A's    *)
(* configuration (apart from its name and script_path) and leaves A as it  *)
(* is, or shows an error and leaves no toggle B.                           *)
C13_DuplicateCopies ==
    [][(/\ last'.op = "_on_duplicate_script"
        /\ last'.name \in DOMAIN scripts
        /\ last'.arg # ""
        /\ last'.arg \notin DOMAIN scripts)
          => \/ /\ last'.arg \in DOMAIN scripts'
                /\ DelKey(DelKey(scripts'[last'.arg], "name"), "script_path")
                     = DelKey(DelKey(scripts[last'.name], "name"), "script_path")
                /\ scripts'[last'.name] = scripts[last'.name]
             \/ /\ last'.dialog = "critical"
                /\ last'.arg \notin DOMAIN scripts']_vars

(* the step ran MainWindow._load_scripts: the timer, or a handler that     *)
(* reloads the table after its operation succeeded                         *)
Reloaded ==
    \/ last'.op = "_load_scripts"
    \/ last'.op \in {"_on_new_script", "_on_remove_script"} /\ last'.ok

(* C16: after _load_scripts the table has one row for each stored toggle,  *)
(* in the order of the store; when the toggle selected before is still     *)
(* stored, the selected row is the row of that toggle, so that no other    *)
(* toggle is selected in its place.                                        *)
C16_RefreshKeepsSelection ==
    [][Reloaded =>
          LET was == _get_selected_script(rows, selected)
          IN  /\ rows' = scriptOrder'
              /\ {rows'[i] : i \in DOMAIN rows'} = DOMAIN scripts'
              /\ Len(rows') = Cardinality(DOMAIN scripts')
              /\ (was # "" /\ was \in DOMAIN scripts') =>
                    (selected' >= 0 /\ _get_selected_script(rows', selected') = was)
              /\ (selected' >= 0 /\ _get_selected_script(rows', selected') # was) =>
                    (was = "" \/ was \notin DOMAIN scripts')]_vars

C16_Witness ==
    /\ last.op = "_load_scripts"
    /\ last.arg = "rebuilt"
    /\ last.name = "B"
    /\ rows = <<"B">>
    /\ selected = 0

----------------------------------------------------------------------------
(* Properties of the background scan (SpecScan) *)

(* C14: scan_web_apps_in_background returns to its caller whatever the     *)
(* thread has done so far; every thread it made is a daemon thread and     *)
(* there is one for each call; a callback is called at most once, never    *)
(* before get_all_web_apps has returned, with the whole list of the web    *)
(* apps of Chrome and Firefox, and it has been called once when            *)
(* _scan_thread has ended after a scan that returned; without a callback   *)
(* nothing is called.                                                      *)
C14_ScanInBackground ==
    /\ scanCaller = "started" => ENABLED ScanReturns
    /\ \A i \in 1..Len(scanThreads) :
          LET th == scanThreads[i]
          IN  /\ th.daemon
              /\ th.calls <= 1
              /\ th.calls = 1 =>
                    /\ th.callback
                    /\ th.pc = "done"
                    /\ th.got = webApps.chrome \o webApps.firefox
              /\ th.pc \in {"start", "scanned", "raised"} => th.calls = 0
              /\ th.pc = "done" => th.calls = (IF th.callback THEN 1 ELSE 0)

C14_Witness ==
    /\ Len(scanThreads) = 2
    /\ scanCaller = "started"
    /\ scanThreads[1].pc = "done"
    /\ scanThreads[1].calls = 1
    /\ scanThreads[1].got = <<"chrome-app", "firefox-app">>
    /\ scanThreads[2].pc = "start"

----------------------------------------------------------------------------
(* C15: a run of the script whose launch command fails shows the           *)
(* notification 'Error: Failed to launch application' and exits with       *)
(* E_APP_LAUNCH, and activates no window.                                  *)
C15_LaunchFailureReported ==
    (Len(runLog) > 0 /\ run.failed) =>
        /\ run.exit = E_APP_LAUNCH
        /\ script.NOTIFICATIONS = "true" =>
              \E i \in 1..Len(run.notes) : run.notes[i] = "Error: Failed to launch application"
        /\ ~Does("activate")

----------------------------------------------------------------------------
(* C17: when the program starts, every well-formed <name>.json of the      *)
(* scripts directory is loaded as the toggle <name>, whatever the other    *)
(* files of the directory hold.                                            *)
C17_WellFormedFilesLoaded ==
    [][last'.op = "restart" =>
          \A n \in DOMAIN jsonFiles :
              jsonFiles[n].kind = "json" =>
                  /\ n \in DOMAIN scripts'
                  /\ scripts'[n] = JsonLoad(jsonFiles[n])]_vars

(* without a malformed file in the directory all the files are loaded *)
C17_HoldsWithoutMalformed ==
    [][(last'.op = "restart" /\ \A n \in DOMAIN jsonFiles : jsonFiles[n].kind = "json") =>
          /\ DOMAIN scripts' = DOMAIN jsonFiles
          /\ \A n \in DOMAIN jsonFiles : scripts'[n] = JsonLoad(jsonFiles[n])]_vars

====
